---------------------------- MODULE Spec2Model ----------------------------
(***************************************************************************)
(* A model of mackerel-plugin-smartmeter: the ECHONET Lite frame codec     *)
(* (lib/echoframe.go) and the protocol engine that drives a Wi-SUN module  *)
(* over a serial line (lib/smartmeter.go).                                 *)
(*                                                                         *)
(* Bytes are integers 0..255, byte strings are sequences of bytes, and Go  *)
(* slices indexed from 0 are read through At/Slice.                        *)
(***************************************************************************)
EXTENDS Integers, Sequences, FiniteSets, TLC

(***************************************************************************)
(* Program constants (lib/echoframe.go, const block and ParseEchoFrame).   *)
(***************************************************************************)
HeaderEchonetLite == 4225             \* 0x1081
Controller == 392961                  \* 0x05ff01
SmartElectricMeter == 165889          \* 0x028801
Get == 98                             \* 0x62
GetRes == 114                         \* 0x72
InstantaneousElectricPower == 231     \* 0xe7
InstantaneousCurrent == 232           \* 0xe8
MinFrameLen == 14                     \* the length test that opens ParseEchoFrame
HeaderLen == 12                       \* offset of the first property triplet
ServiceDelta == 16                    \* 0x10, request/response service offset

(***************************************************************************)
(* Bounds of the model and the values inputs are drawn from.               *)
(***************************************************************************)
MaxProps == 2                         \* properties per generated frame
MaxValLen == 1                        \* bytes per generated property value

TIDs == {0, 1, 43981, 43982}          \* 0xABCD, 0xABCE
Classes == {Controller, SmartElectricMeter, 165890, 392962}
Services == {Get, GetRes, 113, 82}    \* 0x71, 0x52
Codes == {InstantaneousElectricPower, InstantaneousCurrent, 233}
ValueBytes == {0, 100}

RECURSIVE SeqsUpTo(_, _)
SeqsUpTo(S, n) ==
    IF n = 0 THEN {<<>>}
    ELSE LET shorter == SeqsUpTo(S, n - 1)
         IN  shorter \cup {Append(s, x) : s \in {t \in shorter : Len(t) = n - 1}, x \in S}

Values == SeqsUpTo(ValueBytes, MaxValLen)

(***************************************************************************)
(* Byte-level helpers: Go's 0-based indexing, encoding/binary big endian.  *)
(***************************************************************************)
At(raw, i) == raw[i + 1]
Slice(raw, lo, hi) == SubSeq(raw, lo + 1, hi)
Uint16(raw, i) == At(raw, i) * 256 + At(raw, i + 1)
\* binary.BigEndian.Uint32(raw[i:i+4]) & 0x00ffffff: the mask drops the byte at
\* i, whose weight 2^24 is left out here to stay within the checker's integers.
Uint32Low24(raw, i) ==
    (At(raw, i) * 0) + At(raw, i + 1) * 65536 + At(raw, i + 2) * 256 + At(raw, i + 3)
PutUint8(v) == <<v % 256>>
PutUint16(v) == <<(v \div 256) % 256, v % 256>>

(***************************************************************************)
(* type EchoFrame struct                                                   *)
(***************************************************************************)
ZeroFrame == [TID |-> 0, SEOJ |-> 0, DEOJ |-> 0, ESV |-> 0, EPC |-> <<>>, EDT |-> <<>>]

\* NewEchoFrame(dstClassCode, esv, epc, edt); tid is the value RegenerateTID
\* draws, edtNil says that edt is the nil slice.
NewEchoFrame(tid, dstClassCode, esv, epc, edtNil, edt) ==
    LET opc == IF ~edtNil /\ Len(epc) > Len(edt) THEN Len(edt) ELSE Len(epc)
    IN  [TID  |-> tid,
         SEOJ |-> Controller,
         DEOJ |-> dstClassCode,
         ESV  |-> esv,
         EPC  |-> [i \in 1..opc |-> epc[i]],
         EDT  |-> [i \in 1..opc |-> IF edtNil THEN <<>> ELSE edt[i]]]

(***************************************************************************)
(* func EchoFrame.Build() []byte                                           *)
(***************************************************************************)
RECURSIVE BuildProps(_, _)
BuildProps(f, i) ==
    IF i > Len(f.EPC) THEN <<>>
    ELSE PutUint8(f.EPC[i]) \o PutUint8(Len(f.EDT[i])) \o f.EDT[i] \o BuildProps(f, i + 1)

\* Mutant: the destination object written before the source object.
BuildHeader_SwappedObjects(f) ==
    PutUint16(HeaderEchonetLite)
      \o PutUint16(f.TID)
      \o PutUint8((f.DEOJ \div 65536) % 256) \o PutUint16(f.DEOJ % 65536)
      \o PutUint8((f.SEOJ \div 65536) % 256) \o PutUint16(f.SEOJ % 65536)
      \o PutUint8(f.ESV)
      \o PutUint8(Len(f.EPC))

BuildHeader(f) ==
    PutUint16(HeaderEchonetLite)
      \o PutUint16(f.TID)
      \o PutUint8((f.SEOJ \div 65536) % 256) \o PutUint16(f.SEOJ % 65536)
      \o PutUint8((f.DEOJ \div 65536) % 256) \o PutUint16(f.DEOJ % 65536)
      \o PutUint8(f.ESV)
      \o PutUint8(Len(f.EPC))

Build(f) == BuildHeader(f) \o BuildProps(f, 1)

(***************************************************************************)
(* func ParseEchoFrame(raw []byte) returning (frame, error)                *)
(* The result is (frame, error); isNil says the frame pointer is nil.  An  *)
(* index or slice expression out of range panics: err = "panic".           *)
(***************************************************************************)
ErrTooShort == "Too short ECHONET Lite frame"
ErrUnknownHeader == "Unknown ECHONET Lite Header"
ErrPanic == "panic: index out of range"

ParseFail(e) == [ok |-> FALSE, err |-> e, isNil |-> TRUE, fr |-> ZeroFrame]
ParseOk(f) == [ok |-> TRUE, err |-> "", isNil |-> FALSE, fr |-> f]
NoResult == [ok |-> FALSE, err |-> "", isNil |-> TRUE, fr |-> ZeroFrame]

RECURSIVE ParseProps(_, _, _, _, _)
ParseProps(raw, f, i, j, nProperty) ==
    IF j >= nProperty THEN ParseOk(f)
    ELSE IF Len(raw) < i + 2 THEN ParseFail(ErrTooShort)
    ELSE LET lenEDT == At(raw, i + 1)
         IN  IF Len(raw) < i + 2 + lenEDT THEN ParseFail(ErrTooShort)
             ELSE ParseProps(raw,
                             [f EXCEPT !.EPC = Append(@, At(raw, i)),
                                       !.EDT = Append(@, Slice(raw, i + 2, i + 2 + lenEDT))],
                             i + 2 + lenEDT, j + 1, nProperty)

ParseHeader(raw) ==
    [ZeroFrame EXCEPT !.TID = Uint16(raw, 2),
                      !.SEOJ = Uint32Low24(raw, 3),
                      !.DEOJ = Uint32Low24(raw, 6),
                      !.ESV = At(raw, 10)]

\* Mutant: the marker is not compared with HeaderEchonetLite.
ParseEchoFrame_NoMarkerCheck(raw) ==
    IF Len(raw) < MinFrameLen THEN ParseFail(ErrTooShort)
    ELSE ParseProps(raw, ParseHeader(raw), HeaderLen, 0, At(raw, 11))

ParseEchoFrame(raw) ==
    IF Len(raw) < MinFrameLen THEN ParseFail(ErrTooShort)
    ELSE IF Len(raw) < 2 THEN ParseFail(ErrPanic)
    ELSE IF Uint16(raw, 0) # HeaderEchonetLite THEN ParseFail(ErrUnknownHeader)
    ELSE IF Len(raw) < HeaderLen THEN ParseFail(ErrPanic)
    ELSE ParseProps(raw, ParseHeader(raw), HeaderLen, 0, At(raw, 11))

(***************************************************************************)
(* func EchoFrame.CorrespondTo(target) bool                                *)
(***************************************************************************)
\* Mutant: only the request-to-response direction of the service offset.
ServiceMatches_OneWay(f, target) ==
    f.ESV - target.ESV = -ServiceDelta

ServiceMatches(f, target) ==
    LET delta == f.ESV - target.ESV
    IN  delta = -ServiceDelta \/ delta = ServiceDelta

\* Mutant: the test for an empty property list is missing.
CountMatches_AllowEmpty(f, target) ==
    Len(f.EPC) = Len(target.EPC)

CountMatches(f, target) ==
    /\ Len(f.EPC) # 0
    /\ Len(f.EPC) = Len(target.EPC)

CorrespondTo(f, target) ==
    IF f.TID # target.TID THEN FALSE
    ELSE IF f.SEOJ # target.DEOJ THEN FALSE
    ELSE IF f.DEOJ # target.SEOJ THEN FALSE
    ELSE IF ~ServiceMatches(f, target) THEN FALSE
    ELSE IF ~CountMatches(f, target) THEN FALSE
    ELSE \A i \in 1..Len(f.EPC) : f.EPC[i] = target.EPC[i]

(***************************************************************************)
(* Strings (package strings, strconv, encoding/hex) as lib/smartmeter.go   *)
(* uses them.  A Go string is modelled by a string.                        *)
(***************************************************************************)
HasPrefix(s, prefix) ==
    Len(s) >= Len(prefix) /\ SubSeq(s, 1, Len(prefix)) = prefix

HasSuffix(s, suffix) ==
    Len(s) >= Len(suffix) /\ SubSeq(s, Len(s) - Len(suffix) + 1, Len(s)) = suffix

\* Index of the first " " of s at or after position i (1-based), 0 if none.
RECURSIVE IndexSpace(_, _)
IndexSpace(s, i) ==
    IF i > Len(s) THEN 0
    ELSE IF SubSeq(s, i, i) = " " THEN i
    ELSE IndexSpace(s, i + 1)

\* strings.SplitN(s, " ", n) for n > 0: at most n substrings, the last one
\* the unsplit remainder.
RECURSIVE SplitN(_, _)
SplitN(s, n) ==
    LET k == IndexSpace(s, 1)
    IN  IF n <= 1 \/ k = 0 THEN <<s>>
        ELSE <<SubSeq(s, 1, k - 1)>> \o SplitN(SubSeq(s, k + 1, Len(s)), n - 1)

HexDigits == "0123456789ABCDEF"
HexDigitsLower == "0123456789abcdef"

\* Value of one hexadecimal digit, -1 for any other character.
RECURSIVE HexVal(_, _)
HexVal(c, k) ==
    IF k > 16 THEN -1
    ELSE IF SubSeq(HexDigits, k, k) = c \/ SubSeq(HexDigitsLower, k, k) = c THEN k - 1
    ELSE HexVal(c, k + 1)

\* strconv.ParseInt(s, 16, 32): an optional sign, then hexadecimal digits; an
\* error for the empty string, any other character, or a value outside int32.
RECURSIVE ParseHexDigits(_, _, _)
ParseHexDigits(s, i, acc) ==
    IF i > Len(s) THEN [ok |-> TRUE, val |-> acc]
    ELSE LET d == HexVal(SubSeq(s, i, i), 1)
         IN  IF d < 0 THEN [ok |-> FALSE, val |-> 0]
             ELSE IF acc >= 134217728 THEN [ok |-> FALSE, val |-> 0]
             ELSE ParseHexDigits(s, i + 1, acc * 16 + d)

ParseInt16(s) ==
    LET signed == Len(s) >= 1 /\ SubSeq(s, 1, 1) \in {"+", "-"}
        digits == IF signed THEN SubSeq(s, 2, Len(s)) ELSE s
        r      == ParseHexDigits(digits, 1, 0)
    IN  IF Len(digits) = 0 THEN [ok |-> FALSE, val |-> 0]
        ELSE IF r.ok /\ Len(s) >= 1 /\ SubSeq(s, 1, 1) = "-" THEN [ok |-> TRUE, val |-> 0 - r.val]
        ELSE r

\* hex.DecodeString(s): an error for an odd length or a non-hexadecimal byte.
RECURSIVE HexDecode(_, _, _)
HexDecode(s, i, acc) ==
    IF i > Len(s) THEN [ok |-> TRUE, bytes |-> acc]
    ELSE IF i = Len(s) THEN [ok |-> FALSE, bytes |-> <<>>]
    ELSE LET hi == HexVal(SubSeq(s, i, i), 1)
             lo == HexVal(SubSeq(s, i + 1, i + 1), 1)
         IN  IF hi < 0 \/ lo < 0 THEN [ok |-> FALSE, bytes |-> <<>>]
             ELSE HexDecode(s, i + 2, Append(acc, hi * 16 + lo))

DecodeString(s) == HexDecode(s, 1, <<>>)

\* hex.EncodeToString / fmt "%04X" of a byte string (the device side of a line).
RECURSIVE HexEncode(_)
HexEncode(bytes) ==
    IF bytes = <<>> THEN ""
    ELSE SubSeq(HexDigits, (Head(bytes) \div 16) + 1, (Head(bytes) \div 16) + 1)
           \o SubSeq(HexDigits, (Head(bytes) % 16) + 1, (Head(bytes) % 16) + 1)
           \o HexEncode(Tail(bytes))

\* []byte(s) of a binary (WOPT 0) payload.  The lines of the model are text:
\* digits and letters map to their ASCII codes, any other character to 32.
AsciiDigits == "0123456789"
AsciiUpper == "ABCDEFGHIJKLMNOPQRSTUVWXYZ"
AsciiLower == "abcdefghijklmnopqrstuvwxyz"

RECURSIVE IndexIn(_, _, _)
IndexIn(table, c, k) ==
    IF k > Len(table) THEN 0
    ELSE IF SubSeq(table, k, k) = c THEN k
    ELSE IndexIn(table, c, k + 1)

AsciiCode(c) ==
    IF IndexIn(AsciiDigits, c, 1) > 0 THEN 47 + IndexIn(AsciiDigits, c, 1)
    ELSE IF IndexIn(AsciiUpper, c, 1) > 0 THEN 64 + IndexIn(AsciiUpper, c, 1)
    ELSE IF IndexIn(AsciiLower, c, 1) > 0 THEN 96 + IndexIn(AsciiLower, c, 1)
    ELSE 32

RECURSIVE BytesOf(_)
BytesOf(s) ==
    IF Len(s) = 0 THEN <<>>
    ELSE <<AsciiCode(SubSeq(s, 1, 1))>> \o BytesOf(SubSeq(s, 2, Len(s)))

(***************************************************************************)
(* Configuration of the plugin (type SmartmeterPlugin) and the texts of    *)
(* the commands it writes.  A command is its text up to the payload and    *)
(* the payload bytes that fmt's %s appends (empty but for SKSENDTO).       *)
(***************************************************************************)
RoutebPassword == "PWD"
RoutebID == "RBID"
Channel == "21"
PanID == "8888"
IPAddr == "FE80"

Hex4(n) ==
    HexEncode(<<(n \div 256) % 256, n % 256>>)

NoCmd == [text |-> "", payload |-> <<>>]
TextCmd(t) == [text |-> t, payload |-> <<>>]

\* fmt.Sprintf("SKSENDTO %d %s %04X %d [%d ]%04X %s", secure, IPAddr, port,
\* secure, [side,] len(rawFrame), rawFrame) with secure 1, port 3610, side 0.
SendToCmd(dualStack, rawFrame) ==
    [text |-> "SKSENDTO 1 " \o IPAddr \o " " \o Hex4(3610) \o " 1 "
                \o (IF dualStack THEN "0 " ELSE "") \o Hex4(Len(rawFrame)) \o " ",
     payload |-> rawFrame]

PanaCmd_PanIdFirst(step) ==
    CASE step = 1 -> TextCmd("SKSETPWD C " \o RoutebPassword)
      [] step = 2 -> TextCmd("SKSETRBID " \o RoutebID)
      [] step = 3 -> TextCmd("SKSREG S3 " \o PanID)
      [] step = 4 -> TextCmd("SKSREG S2 " \o Channel)
      [] OTHER    -> TextCmd("SKJOIN " \o IPAddr)

PanaCmd(step) ==
    CASE step = 1 -> TextCmd("SKSETPWD C " \o RoutebPassword)
      [] step = 2 -> TextCmd("SKSETRBID " \o RoutebID)
      [] step = 3 -> TextCmd("SKSREG S2 " \o Channel)
      [] step = 4 -> TextCmd("SKSREG S3 " \o PanID)
      [] OTHER    -> TextCmd("SKJOIN " \o IPAddr)

(***************************************************************************)
(* time.Timer: a timer that is on counts down; when it reaches zero a      *)
(* value is placed in its channel (fired).                                 *)
(***************************************************************************)
TimerOff == [on |-> FALSE, left |-> 0, fired |-> FALSE]
NewTimer(d) == [on |-> TRUE, left |-> d, fired |-> FALSE]

\* tm.Reset(d).  A value already waiting in the channel is kept by the Go
\* releases before 1.23 and discarded from 1.23 on: drained says which.
ResetTimer_Keep(t, d, drained) == t
ResetTimer(t, d, drained) ==
    [on |-> TRUE, left |-> d, fired |-> IF drained THEN FALSE ELSE t.fired]

ElapseTimer(t, d) ==
    IF t.on /\ t.left > 0
    THEN [t EXCEPT !.left = IF t.left > d THEN t.left - d ELSE 0,
                   !.fired = t.fired \/ t.left <= d]
    ELSE t

Running(t) == t.on /\ t.left > 0

SkTimeoutSec == 10         \* sendSKCommand: timeout := 10 * time.Second
PanaTimeoutSec == 10       \* execPANA: timeout := 10 * time.Second
PanaTotalSec == 20         \* execPANA: tmTotal := time.NewTimer(20 * time.Second)
ScanTimeoutSec == 3        \* readCorrespondingEchonetFrame: timeout := 3 * time.Second
RetryIntervalMs == 500     \* execEchoRequest: retryInterval := 500 * time.Millisecond
ChanCap == 4               \* FetchMetrics: ch := make(chan string, 4)
RetryLimit == 3            \* FetchMetrics: if retry >= 3

(***************************************************************************)
(* One received line in sendSKCommand's select loop.                       *)
(***************************************************************************)
ErrSkTimeout == "SK command timeout (10sec)"
ErrSkRead == "SK command read error"
ErrSkResponse == "SK command response error: "
ErrSkWrite == "write error"

SkLine_OkJoins(command, acc, line) ==
    IF HasPrefix(line, "FAIL ")
    THEN [done |-> TRUE, val |-> "", err |-> ErrSkResponse \o line, acc |-> acc]
    ELSE IF line = "OK" \/ HasPrefix(command.text, "SKLL64 ")
    THEN [done |-> TRUE, val |-> acc \o line, err |-> "", acc |-> acc \o line]
    ELSE [done |-> FALSE, val |-> "", err |-> "", acc |-> acc \o line]

SkLine(command, acc, line) ==
    IF HasPrefix(line, "FAIL ")
    THEN [done |-> TRUE, val |-> "", err |-> ErrSkResponse \o line, acc |-> acc]
    ELSE IF line = "OK"
    THEN [done |-> TRUE, val |-> acc, err |-> "", acc |-> acc]
    ELSE IF HasPrefix(command.text, "SKLL64 ")
    THEN [done |-> TRUE, val |-> acc \o line, err |-> "", acc |-> acc \o line]
    ELSE [done |-> FALSE, val |-> "", err |-> "", acc |-> acc \o line]

(***************************************************************************)
(* One received line in readCorrespondingEchonetFrame's select loop:       *)
(*   "ignore"   not an ERXUDP line (break: the timer is not reset)         *)
(*   "error"    the scan returns err                                       *)
(*   "unparsed" ParseEchoFrame failed (break: the timer is not reset)      *)
(*   "match"    the frame corresponds to the request and is returned       *)
(*   "other"    a frame that does not correspond (the timer is reset)      *)
(***************************************************************************)
ErrReadTimeout == "Read timeout"
ErrRead == "Read error"
ErrErxFormat == "Unknown ERXUDP format: "
ErrErxNumber == "ERXUDP parse error (not a number) : "
ErrErxLength == "ERXUDP data length mismatch: "
ErrErxHex == "ERXUDP parse error (not a hexadecimal) : "

ScanResult(k, e, f) == [kind |-> k, err |-> e, frame |-> f]

\* From rawData on: ParseEchoFrame and CorrespondTo.
ScanFrame(request, rawData) ==
    LET r == ParseEchoFrame(rawData)
    IN  IF ~r.ok THEN ScanResult("unparsed", "", ZeroFrame)
        ELSE IF CorrespondTo(request, r.fr) THEN ScanResult("match", "", r.fr)
        ELSE ScanResult("other", "", r.fr)

\* From (dataLen, data) on: binary when the lengths agree, else hexadecimal.
ScanData(request, line, dataLen, data) ==
    IF dataLen = Len(data) THEN ScanFrame(request, BytesOf(data))
    ELSE LET h == DecodeString(data)
         IN  IF ~h.ok THEN ScanResult("error", ErrErxHex \o line, ZeroFrame)
             ELSE ScanFrame(request, h.bytes)

ScanLine(dualStack, request, line) ==
    IF ~HasPrefix(line, "ERXUDP ") THEN ScanResult("ignore", "", ZeroFrame)
    ELSE
    LET nToken == IF dualStack THEN 10 ELSE 9
        a == SplitN(line, nToken)
    IN  IF Len(a) < nToken THEN ScanResult("error", ErrErxFormat \o line, ZeroFrame)
        ELSE
        LET i == ParseInt16(a[nToken - 1])
            data == a[nToken]
        IN  IF ~i.ok THEN ScanResult("error", ErrErxNumber \o line, ZeroFrame)
            ELSE IF Len(data) # i.val /\ Len(data) # 2 * i.val
            THEN LET b == SplitN(data, 2)
                 IN  IF Len(b) < 2 THEN ScanResult("error", ErrErxLength \o line, ZeroFrame)
                     ELSE LET j == ParseInt16(b[1])
                          IN  IF ~j.ok
                              THEN ScanResult("error", ErrErxNumber \o line, ZeroFrame)
                              ELSE IF Len(b[2]) # j.val /\ Len(b[2]) # 2 * j.val
                              THEN ScanResult("error", ErrErxLength \o line, ZeroFrame)
                              ELSE ScanData(request, line, j.val, b[2])
            ELSE ScanData(request, line, i.val, data)

(***************************************************************************)
(* func echoFrameToMetric(res): the metrics, an error for a frame without  *)
(* properties, a run-time panic when a value is shorter than the integers  *)
(* read from it.                                                           *)
(***************************************************************************)
Int32Of(b) ==
    (IF b[1] >= 128 THEN b[1] - 256 ELSE b[1]) * 16777216 + b[2] * 65536 + b[3] * 256 + b[4]
Int16Of(b) ==
    (IF b[1] >= 128 THEN b[1] - 256 ELSE b[1]) * 256 + b[2]

\* binary.BigEndian.Uint32(EDT[i]), and Uint16 of EDT[i][:2] and EDT[i][2:],
\* each need four bytes in all.
MetricPanics(f, i) ==
    /\ f.EPC[i] \in {InstantaneousElectricPower, InstantaneousCurrent}
    /\ Len(f.EDT[i]) < 4

\* The last assignment to each metric name wins; current is kept in tenths.
RECURSIVE MetricsFrom(_, _, _)
MetricsFrom(f, i, m) ==
    IF i > Len(f.EPC) THEN m
    ELSE IF f.EPC[i] = InstantaneousElectricPower
    THEN MetricsFrom(f, i + 1, [m EXCEPT !.value = <<Int32Of(f.EDT[i])>>])
    ELSE IF f.EPC[i] = InstantaneousCurrent
    THEN MetricsFrom(f, i + 1,
             [m EXCEPT !.r = <<Int16Of(SubSeq(f.EDT[i], 1, 2))>>,
                       !.t = <<Int16Of(SubSeq(f.EDT[i], 3, 4))>>])
    ELSE MetricsFrom(f, i + 1, m)

NoMetrics == [value |-> <<>>, r |-> <<>>, t |-> <<>>]
ErrNoProperty == "No property in response"

EchoFrameToMetric(f) ==
    IF Len(f.EPC) = 0 THEN [status |-> "error", err |-> ErrNoProperty, metrics |-> NoMetrics]
    ELSE IF \E i \in 1..Len(f.EPC) : MetricPanics(f, i)
    THEN [status |-> "panic", err |-> "panic", metrics |-> NoMetrics]
    ELSE [status |-> "ok", err |-> "", metrics |-> MetricsFrom(f, 1, NoMetrics)]

(***************************************************************************)
(* State.                                                                  *)
(*                                                                         *)
(* The codec variables exercise lib/echoframe.go the way its tests and     *)
(* callers use it: a frame is constructed, built to bytes, bytes arrive    *)
(* from the wire (possibly cut short or damaged) and are parsed, and a     *)
(* request is compared with a candidate response.                          *)
(*                                                                         *)
(* The engine variables are one call of FetchMetrics: the reader goroutine *)
(* feeding the channel ch, and the control flow through execEchoRequest,   *)
(* sendSKCommand, readCorrespondingEchonetFrame and execPANA.  Time is     *)
(* counted in seconds by the timers; the module on the serial line answers *)
(* each command with one of the replies that command can draw.             *)
(***************************************************************************)
VARIABLES
    fr,        \* the frame under construction / the request (an EchoFrame)
    target,    \* the candidate frame handed to CorrespondTo
    raw,       \* the byte string last built or received
    origin,    \* "none", "built" (raw = fr.Build()) or "wire" (any bytes)
    parsed,    \* the result of the last ParseEchoFrame(raw)
    corr,      \* the results of fr.CorrespondTo(target) and target.CorrespondTo(fr)
    cstep      \* position of the codec run

VARIABLES
    dse,           \* p.DualStackSK
    tidPool,       \* the values rand.Int31n(0x10000) may return in this run
    rd,            \* reader goroutine: "scan" (in its loop) or "closed" (returned)
    ch,            \* the buffered channel of lines
    chClosed,      \* close(ch) has run
    pc,            \* position of the control flow
    phase,         \* call site of execEchoRequest in FetchMetrics: "first" or "loop"
    req,           \* the request frame (req in FetchMetrics)
    cmd,           \* sendSKCommand: cmd
    res,           \* sendSKCommand: res
    skTm,          \* sendSKCommand: tm
    skRet,         \* sendSKCommand: the (string, error) returned
    caller,        \* who called sendSKCommand: "exec" or "pana"
    retryInterval, \* execEchoRequest: retryInterval, in milliseconds
    scanTm,        \* readCorrespondingEchonetFrame: tm
    exRet,         \* execEchoRequest: the (frame, error) returned
    panaStep,      \* execPANA: the command in progress, 1..5
    paTm,          \* execPANA: tm
    paTotal,       \* execPANA: tmTotal
    paRet,         \* execPANA: the error returned ("" for nil)
    retry,         \* FetchMetrics: retry
    outcome,       \* what FetchMetrics returned, or that the process ended
    devQueue,      \* the module: lines it has yet to emit, oldest first
    devJoin,       \* the module: a join is in progress
    sleeps,        \* history: the durations execEchoRequest slept in this call
    sentTIDs,      \* history: the transaction ids transmitted in this call
    nSent,         \* history: the number of frames transmitted in this call
    regens,        \* history: the calls of RegenerateTID in this call
    wrote,         \* history: the texts of the commands written
    events,        \* history: the calls and returns FetchMetrics made
    loopFails,     \* history: failed reads after authentication
    sinceLine,     \* history: seconds since SKJOIN was written or a line was last received
    gapsShort,     \* history: no such gap has reached the per-attempt timeout
    skSeen,        \* history: the lines this sendSKCommand call has received
    skWrites,      \* history: the times this sendSKCommand call has written its command
    skIdle,        \* history: seconds since this call wrote or last received a line
    skElapsed,     \* history: seconds since this call wrote (kept when watch)
    tidUses,       \* history: transmissions made with the current req.TID (2: two or more)
    scanIdle,      \* history: seconds since the scan last received a line
    paWrote,       \* history: the commands this execPANA call has written, in order
    paEv24,        \* history: EVENT 24 lines this execPANA call has received (2: two or more)
    readLog,       \* history: the lines the reader has read (kept when watch)
    recvLog,       \* history: the lines the control flow has received (kept when watch)
    tick,          \* the resolution of the clock in this run, in seconds
    watch          \* whether this run keeps the long histories

codecVars == <<fr, target, raw, origin, parsed, corr, cstep>>
readerVars == <<rd, ch, chClosed>>
skVars == <<cmd, res, skTm, skRet, caller>>
execVars == <<phase, req, retryInterval, scanTm, exRet>>
panaVars == <<panaStep, paTm, paTotal, paRet>>
deviceVars == <<devQueue, devJoin>>
historyVars ==
    <<sleeps, sentTIDs, nSent, regens, wrote, events, loopFails, sinceLine, gapsShort>>
skObs == <<skSeen, skWrites, skIdle, skElapsed>>
panaObs == <<paWrote, paEv24>>
logObs == <<readLog, recvLog>>
runVars == <<tick, watch>>
obsVars == <<skObs, tidUses, scanIdle, panaObs, logObs, runVars>>
engineVars ==
    <<dse, tidPool, readerVars, pc, skVars, execVars, panaVars, retry, outcome,
      deviceVars, historyVars, obsVars>>
vars == <<codecVars, engineVars>>

NoCorr == [done |-> FALSE, fwd |-> FALSE, bwd |-> FALSE, before |-> <<ZeroFrame, ZeroFrame>>]
NoSkRet == [val |-> "", err |-> ""]
NoExRet == [ok |-> FALSE, err |-> "", frame |-> ZeroFrame]
Running0 == [status |-> "running", err |-> "", metrics |-> NoMetrics]

CodecIdle ==
    /\ fr = ZeroFrame
    /\ target = ZeroFrame
    /\ raw = <<>>
    /\ origin = "none"
    /\ parsed = NoResult
    /\ corr = NoCorr
    /\ cstep = "init"

TickSec == 5           \* the longest step of the clock, in seconds

\* No call is in progress: nothing has been observed.
ObsIdle ==
    /\ skSeen = <<>> /\ skWrites = 0 /\ skIdle = 0 /\ skElapsed = 0
    /\ tidUses = 0 /\ scanIdle = 0
    /\ paWrote = <<>> /\ paEv24 = 0
    /\ readLog = <<>> /\ recvLog = <<>>

\* The engine before FetchMetrics: nothing runs.
EngineIdle ==
    /\ dse = FALSE /\ tidPool = {}
    /\ rd = "closed" /\ ch = <<>> /\ chClosed = FALSE
    /\ pc = "idle"
    /\ cmd = NoCmd /\ res = "" /\ skTm = TimerOff /\ skRet = NoSkRet /\ caller = "none"
    /\ phase = "none" /\ req = ZeroFrame /\ retryInterval = 0
    /\ scanTm = TimerOff /\ exRet = NoExRet
    /\ panaStep = 0 /\ paTm = TimerOff /\ paTotal = TimerOff /\ paRet = ""
    /\ retry = 0 /\ outcome = Running0
    /\ devQueue = <<>> /\ devJoin = FALSE
    /\ sleeps = <<>> /\ sentTIDs = {} /\ nSent = 0 /\ regens = 0
    /\ wrote = {} /\ events = <<>>
    /\ loopFails = 0 /\ sinceLine = 0 /\ gapsShort = TRUE
    /\ ObsIdle
    /\ tick = TickSec /\ watch = FALSE

CodecInit == CodecIdle /\ EngineIdle

(***************************************************************************)
(* Codec run: NewEchoFrame, field assignment, Build, bytes from the wire,  *)
(* ParseEchoFrame.                                                         *)
(***************************************************************************)
CodecTIDs == {0, 43981}
CodecClasses == {Controller, SmartElectricMeter}
CodecServices == {Get, GetRes}
CodecCodes == {InstantaneousElectricPower, 233}

\* 1081000102880105FF017201E80400140064 (TestParseEchoFrame)
TestPayload ==
    <<16, 129, 0, 1, 2, 136, 1, 5, 255, 1, 114, 1, 232, 4, 0, 20, 0, 100>>
\* 1081000005FF010288016201E700 (TestEchoFrameBuild)
TestBuilt ==
    <<16, 129, 0, 0, 5, 255, 1, 2, 136, 1, 98, 1, 231, 0>>

CallNewEchoFrame ==
    /\ cstep = "init"
    /\ \E tid \in CodecTIDs, dst \in CodecClasses, esv \in CodecServices,
          epc \in SeqsUpTo(CodecCodes, MaxProps), edtNil \in BOOLEAN,
          edt \in SeqsUpTo(Values, MaxProps) :
            /\ edtNil => edt = <<>>
            /\ fr' = NewEchoFrame(tid, dst, esv, epc, edtNil, edt)
    /\ cstep' = "made"
    /\ UNCHANGED <<target, raw, origin, parsed, corr, engineVars>>

\* frame.TID = ..., frame.SEOJ = ... : the fields are exported and assigned
\* directly (TestEchoFrameBuild sets TID; a response carries any source).
AssignFields ==
    /\ cstep = "made"
    /\ \E tid \in CodecTIDs, src \in CodecClasses :
            fr' = [fr EXCEPT !.TID = tid, !.SEOJ = src]
    /\ cstep' = "set"
    /\ UNCHANGED <<target, raw, origin, parsed, corr, engineVars>>

CallBuild ==
    /\ cstep \in {"made", "set"}
    /\ raw' = Build(fr)
    /\ origin' = "built"
    /\ cstep' = "bytes"
    /\ UNCHANGED <<fr, target, parsed, corr, engineVars>>

\* Bytes from the wire: a built frame cut short, ...
WireTruncate ==
    /\ cstep = "bytes" /\ origin = "built"
    /\ \E k \in 0..(Len(raw) - 1) : raw' = SubSeq(raw, 1, k)
    /\ origin' = "wire"
    /\ UNCHANGED <<fr, target, parsed, corr, cstep, engineVars>>

\* ... with one byte of the marker, the count or the first length damaged, ...
WireDamage ==
    /\ cstep = "bytes" /\ origin = "built"
    /\ \E i \in {0, 1, 11, 13}, b \in {0, 2, 129} :
            /\ i < Len(raw)
            /\ At(raw, i) # b
            /\ raw' = [raw EXCEPT ![i + 1] = b]
    /\ origin' = "wire"
    /\ UNCHANGED <<fr, target, parsed, corr, cstep, engineVars>>

\* ... followed by extra bytes, ...
WirePad ==
    /\ cstep = "bytes" /\ origin = "built"
    /\ \E pad \in {<<0>>, <<0, 0>>, <<233, 1>>} : raw' = raw \o pad
    /\ origin' = "wire"
    /\ UNCHANGED <<fr, target, parsed, corr, cstep, engineVars>>

\* ... or the payload of the test suite.
WireTestPayload ==
    /\ cstep = "init"
    /\ raw' = TestPayload
    /\ origin' = "wire"
    /\ cstep' = "bytes"
    /\ UNCHANGED <<fr, target, parsed, corr, engineVars>>

CallParse ==
    /\ cstep = "bytes"
    /\ parsed' = ParseEchoFrame(raw)
    /\ cstep' = "parsed"
    /\ UNCHANGED <<fr, target, raw, origin, corr, engineVars>>

CodecNext ==
    \/ CallNewEchoFrame
    \/ AssignFields
    \/ CallBuild
    \/ WireTruncate
    \/ WireDamage
    \/ WirePad
    \/ WireTestPayload
    \/ CallParse

SpecCodec == CodecInit /\ [][CodecNext]_vars

(***************************************************************************)
(* Correlation run: a request and a candidate, then CorrespondTo in both   *)
(* directions (TestEchoFrameCorrespondTo calls it both ways).              *)
(***************************************************************************)
CorrTIDs == {43981, 43982}                  \* 0xABCD, 0xABCE
CorrClasses == {Controller, SmartElectricMeter}
CorrServices == {Get, GetRes, 113, 82}      \* 0x62, 0x72, 0x71, 0x52
CorrCodes == {InstantaneousCurrent, 233}    \* 0xE8, 0xE9

CorrFrames ==
    {[TID |-> t, SEOJ |-> s, DEOJ |-> d, ESV |-> e, EPC |-> c,
      EDT |-> [i \in 1..Len(c) |-> <<>>]] :
        t \in CorrTIDs, s \in CorrClasses, d \in CorrClasses, e \in CorrServices,
        c \in SeqsUpTo(CorrCodes, MaxProps)}

CorrInit == CodecIdle /\ EngineIdle

ChooseRequest ==
    /\ cstep = "init"
    /\ fr' \in CorrFrames
    /\ cstep' = "request"
    /\ UNCHANGED <<target, raw, origin, parsed, corr, engineVars>>

ChooseCandidate ==
    /\ cstep = "request"
    /\ target' \in CorrFrames
    /\ cstep' = "pair"
    /\ UNCHANGED <<fr, raw, origin, parsed, corr, engineVars>>

CallCorrespondTo ==
    /\ cstep = "pair"
    /\ corr' = [done |-> TRUE,
                fwd |-> CorrespondTo(fr, target),
                bwd |-> CorrespondTo(target, fr),
                before |-> <<fr, target>>]
    /\ cstep' = "compared"
    /\ UNCHANGED <<fr, target, raw, origin, parsed, engineVars>>

CorrNext ==
    \/ ChooseRequest
    \/ ChooseCandidate
    \/ CallCorrespondTo

SpecCorr == CorrInit /\ [][CorrNext]_vars

(***************************************************************************)
(* Properties of the codec.                                                *)
(***************************************************************************)
Props(f) == [i \in 1..Len(f.EPC) |-> <<f.EPC[i], f.EDT[i]>>]

SameFrame(a, b) ==
    /\ a.TID = b.TID /\ a.SEOJ = b.SEOJ /\ a.DEOJ = b.DEOJ /\ a.ESV = b.ESV
    /\ Len(a.EPC) = Len(b.EPC)
    /\ Len(a.EDT) = Len(b.EDT)
    /\ \A i \in 1..Len(a.EPC) : a.EPC[i] = b.EPC[i] /\ a.EDT[i] = b.EDT[i]

\* C1: ParseEchoFrame(f.Build()) succeeds and returns a frame with the
\* transaction id, objects, service code, property codes and values of f, for
\* every frame f, the frame with zero properties included.
C1_RoundTrip ==
    (cstep = "parsed" /\ origin = "built") =>
        /\ parsed.ok
        /\ ~parsed.isNil
        /\ SameFrame(parsed.fr, fr)

\* The same round trip for frames with at least one property (what the code does).
C1_RoundTripNonEmpty ==
    (cstep = "parsed" /\ origin = "built" /\ Len(fr.EPC) >= 1) =>
        /\ parsed.ok
        /\ SameFrame(parsed.fr, fr)

\* Where the triplets that the count byte declares end, read from the bytes
\* alone; a triplet whose code or length byte is missing ends past the input.
RECURSIVE DeclaredEnd(_, _, _)
DeclaredEnd(bytes, i, n) ==
    IF n = 0 THEN i
    ELSE IF i + 2 > Len(bytes) THEN i + 2
    ELSE DeclaredEnd(bytes, i + 2 + At(bytes, i + 1), n - 1)

BadMarker(bytes) == Len(bytes) < 2 \/ <<At(bytes, 0), At(bytes, 1)>> # <<16, 129>>
TripletOverrun(bytes) ==
    /\ Len(bytes) >= 12
    /\ DeclaredEnd(bytes, 12, At(bytes, 11)) > Len(bytes)

\* C2: ParseEchoFrame returns an error and no frame for an input shorter than
\* 12 bytes, for one without the marker 0x1081 and for one whose declared
\* triplets run past the end; it never reads out of range, and every failure
\* has a structural cause (length, marker, overrun), never a property code.
C2_ParseRejects ==
    cstep = "parsed" =>
        /\ (Len(raw) < 12 \/ BadMarker(raw) \/ TripletOverrun(raw)) =>
              (~parsed.ok /\ parsed.isNil /\ parsed.err # "")
        /\ parsed.err # ErrPanic
        /\ ~parsed.ok => (Len(raw) < 14 \/ BadMarker(raw) \/ TripletOverrun(raw))
        /\ parsed.ok => (~parsed.isNil /\ parsed.err = "")

C2_Witness ==
    /\ cstep = "parsed"
    /\ Len(raw) >= 14 /\ ~BadMarker(raw) /\ TripletOverrun(raw)
    /\ ~parsed.ok /\ parsed.isNil
    /\ \E i \in 1..Len(raw) : raw[i] = 233

\* The j-th encoded triplet of a well-formed input starts at TripletAt(bytes, j).
RECURSIVE TripletAt(_, _)
TripletAt(bytes, j) ==
    IF j = 1 THEN 12
    ELSE LET p == TripletAt(bytes, j - 1) IN p + 2 + At(bytes, p + 1)

WellFormed(bytes) ==
    /\ Len(bytes) >= 12
    /\ ~BadMarker(bytes)
    /\ ~TripletOverrun(bytes)

DecodesAsEncoded(bytes, result) ==
    /\ result.ok
    /\ Len(result.fr.EPC) = At(bytes, 11)
    /\ Len(result.fr.EDT) = At(bytes, 11)
    /\ result.fr.TID = At(bytes, 2) * 256 + At(bytes, 3)
    /\ result.fr.SEOJ = At(bytes, 4) * 65536 + At(bytes, 5) * 256 + At(bytes, 6)
    /\ result.fr.DEOJ = At(bytes, 7) * 65536 + At(bytes, 8) * 256 + At(bytes, 9)
    /\ result.fr.ESV = At(bytes, 10)
    /\ \A j \in 1..At(bytes, 11) :
          LET p == TripletAt(bytes, j)
          IN  /\ result.fr.EPC[j] = At(bytes, p)
              /\ Len(result.fr.EDT[j]) = At(bytes, p + 1)
              /\ \A k \in 1..Len(result.fr.EDT[j]) : result.fr.EDT[j][k] = At(bytes, p + 1 + k)

\* C5: for every structurally well-formed input ParseEchoFrame returns as many
\* properties as byte 11 declares, the j-th with the code and the declared-
\* length value of the j-th triplet, and the header fields from bytes 2..10;
\* for 1081000102880105FF017201E80400140064 that is one property, 0xE8 with
\* value 00 14 00 64.
C5_DecodesWellFormed ==
    cstep = "parsed" =>
        /\ WellFormed(raw) => DecodesAsEncoded(raw, parsed)
        /\ raw = TestPayload =>
              (parsed.ok /\ parsed.fr.EPC = <<232>> /\ parsed.fr.EDT = <<<<0, 20, 0, 100>>>>)

\* The same with the inputs the parser accepts: at least 14 bytes.
C5_DecodesLongEnough ==
    cstep = "parsed" =>
        /\ (WellFormed(raw) /\ Len(raw) >= 14) => DecodesAsEncoded(raw, parsed)
        /\ raw = TestPayload =>
              (parsed.ok /\ parsed.fr.EPC = <<232>> /\ parsed.fr.EDT = <<<<0, 20, 0, 100>>>>)

\* Offset in the output of the i-th property's triplet.
RECURSIVE TripletOffset(_, _)
TripletOffset(f, i) ==
    IF i = 1 THEN 12 ELSE TripletOffset(f, i - 1) + 2 + Len(f.EDT[i - 1])

\* C6: Build emits the 12-byte big-endian header (0x1081, transaction id,
\* source, destination, service, count) and then one (code, len(value), value)
\* triplet per property in stored order; NewEchoFrame sets the controller
\* class as source; class 0x028801, service 0x62, property 0xE7 with empty
\* value and transaction id 0 build to 1081000005FF010288016201E700.
C6_BuildLayout ==
    /\ cstep = "made" => fr.SEOJ = Controller
    /\ (cstep = "bytes" /\ origin = "built") =>
          /\ Len(raw) = TripletOffset(fr, Len(fr.EPC) + 1)
          /\ SubSeq(raw, 1, 2) = <<16, 129>>
          /\ At(raw, 2) * 256 + At(raw, 3) = fr.TID
          /\ At(raw, 4) * 65536 + At(raw, 5) * 256 + At(raw, 6) = fr.SEOJ
          /\ At(raw, 7) * 65536 + At(raw, 8) * 256 + At(raw, 9) = fr.DEOJ
          /\ At(raw, 10) = fr.ESV
          /\ At(raw, 11) = Len(fr.EPC)
          /\ \A i \in 1..Len(fr.EPC) :
                LET p == TripletOffset(fr, i)
                IN  /\ At(raw, p) = fr.EPC[i]
                    /\ At(raw, p + 1) = Len(fr.EDT[i])
                    /\ SubSeq(raw, p + 3, p + 2 + Len(fr.EDT[i])) = fr.EDT[i]
          /\ (fr = NewEchoFrame(0, SmartElectricMeter, Get,
                                <<InstantaneousElectricPower>>, FALSE, <<<<>>>>))
                => raw = TestBuilt

C6_Witness ==
    /\ cstep = "bytes" /\ origin = "built"
    /\ fr.SEOJ = Controller /\ fr.TID = 0
    /\ raw = TestBuilt

\* The correlation rule, stated as one condition.
Correlates(request, cand) ==
    /\ request.TID = cand.TID
    /\ request.SEOJ = cand.DEOJ
    /\ request.DEOJ = cand.SEOJ
    /\ (cand.ESV = request.ESV + 16 \/ request.ESV = cand.ESV + 16)
    /\ Len(request.EPC) > 0
    /\ Len(cand.EPC) = Len(request.EPC)
    /\ \A i \in 1..Len(request.EPC) : cand.EPC[i] = request.EPC[i]

\* The candidates that differ from cand in exactly one of: transaction id,
\* source, destination, service offset, one property code.
AlteredOnce(request, cand) ==
    {[cand EXCEPT !.TID = t] : t \in CorrTIDs \ {cand.TID}}
      \cup {[cand EXCEPT !.SEOJ = c] : c \in CorrClasses \ {cand.SEOJ}}
      \cup {[cand EXCEPT !.DEOJ = c] : c \in CorrClasses \ {cand.DEOJ}}
      \cup {[cand EXCEPT !.ESV = e] :
               e \in {x \in CorrServices : x - request.ESV # 16 /\ request.ESV - x # 16}}
      \cup UNION {{[cand EXCEPT !.EPC[i] = c] : c \in CorrCodes \ {cand.EPC[i]}} :
                     i \in 1..Len(cand.EPC)}

TestRequest ==
    [TID |-> 43981, SEOJ |-> Controller, DEOJ |-> SmartElectricMeter, ESV |-> Get,
     EPC |-> <<InstantaneousCurrent>>, EDT |-> <<<<>>>>]

\* C3: req.CorrespondTo(cand) is true iff the transaction ids are equal, the
\* endpoints are swapped, the service codes differ by exactly 0x10 either way,
\* both have the same non-zero number of properties and the codes match by
\* position; altering one of these in a correlating candidate gives false; the
\* call changes neither frame.
C3_CorrespondToIff ==
    corr.done =>
        /\ corr.fwd <=> Correlates(fr, target)
        /\ corr.fwd => \A alt \in AlteredOnce(fr, target) : ~CorrespondTo(fr, alt)
        /\ corr.before = <<fr, target>>

C3_Witness ==
    /\ corr.done /\ corr.fwd
    /\ fr = TestRequest
    /\ target.TID = 43981 /\ target.ESV = GetRes /\ target.EPC = <<InstantaneousCurrent>>
    /\ AlteredOnce(fr, target) # {}

\* C4: a.CorrespondTo(b) = b.CorrespondTo(a) for all frames, and both are false
\* when either frame has no property, the transaction ids differ, the objects
\* are not swapped or the property counts differ.
C4_Symmetric ==
    corr.done =>
        /\ corr.fwd = corr.bwd
        /\ ( \/ Len(fr.EPC) = 0 \/ Len(target.EPC) = 0
             \/ fr.TID # target.TID
             \/ fr.SEOJ # target.DEOJ \/ fr.DEOJ # target.SEOJ
             \/ Len(fr.EPC) # Len(target.EPC) ) => (~corr.fwd /\ ~corr.bwd)

C4_Witness ==
    /\ corr.done /\ corr.fwd /\ corr.bwd
    /\ fr.ESV = GetRes /\ target.ESV = Get


(***************************************************************************)
(* Bounds of the engine runs.                                              *)
(***************************************************************************)
MaxAttempts == 4       \* transmissions within one execEchoRequest call
MaxLoopReads == 5      \* failed reads after authentication
MaxPending == 3        \* lines the module holds back at one time
MaxScanLines == 2      \* lines the module emits during one watched scan
FineTickSec == 1       \* the step of the clock where gaps under 3 s matter
MaxLog == 10           \* lines after which a watched run reads no more join events

EngineTIDs == {1, 2, 43981, 43982}

(***************************************************************************)
(* The module on the serial line.  It answers SKSENDTO with the status     *)
(* event and the terminal line, and passes on the datagrams the meter      *)
(* sends; it answers a register command with the terminal line; after      *)
(* SKJOIN it reports the progress of the join with events.                 *)
(***************************************************************************)
ResponseTo(tid) ==
    [TID |-> tid, SEOJ |-> SmartElectricMeter, DEOJ |-> Controller, ESV |-> GetRes,
     EPC |-> <<InstantaneousElectricPower, InstantaneousCurrent>>,
     EDT |-> <<<<0, 0, 1, 244>>, <<0, 20, 0, 100>>>>]

\* The meter cannot serve the request: ESV 0x52 (the request's minus 0x10),
\* the same properties, each with no value.
RefusalTo(tid) ==
    [TID |-> tid, SEOJ |-> SmartElectricMeter, DEOJ |-> Controller, ESV |-> Get - 16,
     EPC |-> <<InstantaneousElectricPower, InstantaneousCurrent>>,
     EDT |-> <<<<>>, <<>>>>]

\* ERXUDP <sender> <dest> <rport> <lport> <senderlla> <secured> [<side>] <datalen> <data>
ErxLine(dualStack, frame) ==
    "ERXUDP FE80 FE81 0E1A 0E1A 001D 1 " \o (IF dualStack THEN "0 " ELSE "")
        \o Hex4(Len(Build(frame))) \o " " \o HexEncode(Build(frame))

SentOk == "EVENT 21 FE80 00"
SentLocalFailure == "EVENT 21 FE80 01"
SentRejected == "EVENT 21 FE80 02"
JoinRetrying == "EVENT 24 FE80"
JoinComplete == "EVENT 25 FE80"

SendReplies(tid, dualStack) ==
    LET answer == ErxLine(dualStack, ResponseTo(tid))
        foreign == ErxLine(dualStack, ResponseTo((tid + 1) % 65536))
    IN  { <<>>,
          <<"FAIL ER06">>,
          <<SentLocalFailure, "OK">>,
          <<SentRejected, "OK">>,
          <<SentOk, "OK">>,
          <<SentOk, "OK", answer>>,
          <<SentOk, "OK", foreign>> }

RegisterReplies == { <<>>, <<"OK">>, <<"FAIL ER04">> }
JoinReplies == { <<>>, <<"OK">>, <<"FAIL ER10">> }

\* after SKLL64: the address, which no terminal line follows
ResolveCmd == TextCmd("SKLL64 001D129012345678")
ResolvedAddr == "FE80:0000:0000:0000:021D:1290:1234:5678"

ResolveReplies ==
    { <<>>, <<ResolvedAddr>>, <<ResolvedAddr, "OK">>, <<"FAIL ER04">>, <<"OK">> }

Replies(kind, tid, dualStack) ==
    CASE kind = "send" -> SendReplies(tid, dualStack)
      [] kind = "join" -> JoinReplies
      [] kind = "resolve" -> ResolveReplies
      [] OTHER -> RegisterReplies

\* The module reads a command: the reply it will give queues up behind the
\* lines it has not emitted yet.
DeviceReads(kind, tid) ==
    IF rd = "closed"
    THEN UNCHANGED <<devQueue, devJoin>>
    ELSE \E reply \in Replies(kind, tid, dse) :
            /\ Len(devQueue) + Len(reply) <= MaxPending
            /\ devQueue' = devQueue \o reply
            /\ devJoin' = (kind = "join" /\ reply = <<"OK">>)

(***************************************************************************)
(* The reader goroutine of FetchMetrics.  The control goroutine looks at   *)
(* the channel only in a select, so the reader's steps are taken while it  *)
(* waits in one.                                                           *)
(***************************************************************************)
Waiting == pc \in {"sk_wait", "scan", "pa_select"}

\* ch <- line
Send_Front(queue, line) == <<line>> \o queue
Send(queue, line) == Append(queue, line)

\* the histories
Logged(log, line) == IF watch THEN Append(log, line) ELSE log
Bump(n) == IF n < 2 THEN n + 1 ELSE n

\* for scanner.Scan() { line := scanner.Text(); ch <- line }: one pass of the
\* loop.  ch <- line blocks while the channel is full, so the pass completes
\* only when there is room; the line is one the module had queued
ReaderScan ==
    /\ Waiting /\ rd = "scan" /\ devQueue # <<>> /\ Len(ch) < ChanCap
    /\ ch' = Send(ch, Head(devQueue))
    /\ devQueue' = Tail(devQueue)
    /\ readLog' = Logged(readLog, Head(devQueue))
    /\ UNCHANGED <<skObs, tidUses, scanIdle, panaObs, recvLog, runVars>>
    /\ UNCHANGED <<codecVars, dse, tidPool, rd, chClosed, pc, skVars, execVars, panaVars,
                   retry, outcome, devJoin, historyVars>>

\* the same pass, the line an event of the join in progress
ReaderScanEvent ==
    /\ Waiting /\ rd = "scan" /\ devQueue = <<>> /\ devJoin /\ Len(ch) < ChanCap
    /\ watch => Len(readLog) < MaxLog
    /\ \E line \in {JoinRetrying, JoinComplete} :
          /\ ch' = Send(ch, line)
          /\ devJoin' = (line = JoinRetrying)
          /\ readLog' = Logged(readLog, line)
    /\ UNCHANGED <<skObs, tidUses, scanIdle, panaObs, recvLog, runVars>>
    /\ UNCHANGED <<codecVars, dse, tidPool, rd, chClosed, pc, skVars, execVars, panaVars,
                   retry, outcome, devQueue, historyVars>>

\* scanner.Scan() returns false at the end of the stream, scanner.Err() is
\* nil: the deferred s.Close() and close(ch) run
ReaderEof ==
    /\ Waiting /\ rd = "scan"
    /\ rd' = "closed"
    /\ chClosed' = TRUE
    /\ devQueue' = <<>>
    /\ devJoin' = FALSE
    /\ UNCHANGED <<codecVars, obsVars, dse, tidPool, ch, pc, skVars, execVars, panaVars,
                   retry, outcome, historyVars>>

\* The process ends: no goroutine runs on, no deferred call runs.
ProcessExit(reason) ==
    /\ pc' = "exit"
    /\ outcome' = [status |-> "exit", err |-> reason, metrics |-> NoMetrics]
    /\ rd' = "closed" /\ ch' = <<>> /\ chClosed' = FALSE
    /\ cmd' = NoCmd /\ res' = "" /\ skTm' = TimerOff /\ skRet' = NoSkRet /\ caller' = "none"
    /\ scanTm' = TimerOff /\ exRet' = NoExRet
    /\ paTm' = TimerOff /\ paTotal' = TimerOff
    /\ devQueue' = <<>> /\ devJoin' = FALSE
    /\ skSeen' = <<>> /\ skWrites' = 0 /\ skIdle' = 0 /\ skElapsed' = 0
    /\ tidUses' = 0 /\ scanIdle' = 0 /\ paWrote' = <<>> /\ paEv24' = 0
    /\ UNCHANGED <<logObs, runVars>>
    /\ UNCHANGED <<codecVars, dse, tidPool, phase, req, retryInterval, panaStep, paRet,
                   retry, historyVars>>

\* scanner.Scan() returns false after a read error: log.Fatal(err)
ReaderErr ==
    /\ Waiting /\ rd = "scan"
    /\ ProcessExit("log.Fatal")

(***************************************************************************)
(* func sendSKCommand(input, w, cmd)                                       *)
(***************************************************************************)
\* Entry: w.WriteString(cmd + "\r\n"), w.Flush() (wok: both succeed), then
\* res := "" and tm := time.NewTimer(timeout).
SkBegin(c, who, kind, wok) ==
    /\ cmd' = c
    /\ caller' = who
    /\ res' = ""
    /\ skSeen' = <<>>
    /\ skWrites' = (IF wok THEN 1 ELSE 0)
    /\ skIdle' = 0
    /\ skElapsed' = 0
    /\ IF wok
       THEN /\ pc' = "sk_wait"
            /\ skTm' = NewTimer(SkTimeoutSec)
            /\ skRet' = NoSkRet
            /\ wrote' = wrote \cup {c.text}
            /\ DeviceReads(kind, req.TID)
       ELSE /\ pc' = "sk_ret"
            /\ skTm' = TimerOff
            /\ skRet' = [val |-> "", err |-> ErrSkWrite]
            /\ UNCHANGED <<wrote, devQueue, devJoin>>

\* Joining: from the writing of SKJOIN until execPANA returns
Joining == paTotal.on /\ panaStep = 5

\* case <-tm.C
SkTimeout ==
    /\ pc = "sk_wait" /\ skTm.fired
    /\ skRet' = [val |-> "", err |-> ErrSkTimeout]
    /\ skTm' = TimerOff
    /\ pc' = "sk_ret"
    /\ UNCHANGED <<codecVars, obsVars, dse, tidPool, readerVars, cmd, res, caller, execVars, panaVars,
                   retry, outcome, deviceVars, historyVars>>

\* case line, ok := <-input with ok
SkRecv ==
    /\ pc = "sk_wait" /\ ch # <<>>
    /\ ch' = Tail(ch)
    /\ LET r == SkLine(cmd, res, Head(ch))
       IN  /\ res' = r.acc
           /\ IF r.done
              THEN /\ skRet' = [val |-> r.val, err |-> r.err]
                   /\ skTm' = TimerOff
                   /\ pc' = "sk_ret"
              ELSE /\ \E drained \in (IF skTm.fired THEN BOOLEAN ELSE {TRUE}) :
                          skTm' = ResetTimer(skTm, SkTimeoutSec, drained)
                   /\ UNCHANGED <<skRet, pc>>
    /\ sinceLine' = 0
    /\ skSeen' = Append(skSeen, Head(ch))
    /\ skIdle' = 0
    /\ recvLog' = Logged(recvLog, Head(ch))
    /\ UNCHANGED <<skWrites, skElapsed, tidUses, scanIdle, panaObs, readLog, runVars>>
    /\ UNCHANGED <<codecVars, dse, tidPool, rd, chClosed, cmd, caller, execVars, panaVars,
                   retry, outcome, deviceVars, sleeps, sentTIDs, nSent, regens, wrote, events,
                   loopFails, gapsShort>>

\* case line, ok := <-input with !ok
SkClosed ==
    /\ pc = "sk_wait" /\ ch = <<>> /\ chClosed
    /\ skRet' = [val |-> "", err |-> ErrSkRead]
    /\ skTm' = TimerOff
    /\ pc' = "sk_ret"
    /\ UNCHANGED <<codecVars, obsVars, dse, tidPool, readerVars, cmd, res, caller, execVars, panaVars,
                   retry, outcome, deviceVars, historyVars>>

(***************************************************************************)
(* func execEchoRequest(input, w, req)                                     *)
(***************************************************************************)
ErrUnconnected == "PANA unconnected?"

\* Entry: retryInterval := 500 * time.Millisecond
CallExec(site) ==
    /\ pc' = "ex_top"
    /\ phase' = site
    /\ retryInterval' = RetryIntervalMs
    /\ sleeps' = <<>>
    /\ sentTIDs' = {}
    /\ nSent' = 0
    /\ regens' = 0

ExecReturn(r) ==
    /\ pc' = "ex_ret"
    /\ exRet' = r
    /\ scanTm' = TimerOff

\* sendSKCommand has returned and its result is used: its locals are gone
SkDone ==
    /\ cmd' = NoCmd /\ res' = "" /\ skRet' = NoSkRet /\ caller' = "none"
    /\ skSeen' = <<>> /\ skWrites' = 0 /\ skIdle' = 0 /\ skElapsed' = 0
    /\ UNCHANGED skTm

\* Top of the loop: rawFrame := req.Build(), cmd := fmt.Sprintf(...), and the
\* call of sendSKCommand up to its select.
ExecSend ==
    /\ pc = "ex_top" /\ nSent < MaxAttempts
    /\ \E wok \in BOOLEAN :
          /\ SkBegin(SendToCmd(dse, Build(req)), "exec", "send", wok)
          /\ sentTIDs' = IF wok THEN sentTIDs \cup {req.TID} ELSE sentTIDs
          /\ nSent' = IF wok THEN nSent + 1 ELSE nSent
          /\ tidUses' = IF wok THEN Bump(tidUses) ELSE tidUses
    /\ UNCHANGED <<scanIdle, panaObs, logObs, runVars>>
    /\ UNCHANGED <<codecVars, dse, tidPool, readerVars, execVars, panaVars, retry, outcome,
                   sleeps, regens, events, loopFails, sinceLine, gapsShort>>

\* strings.HasSuffix(udpStatus, " 02") and strings.HasSuffix(udpStatus, " 00")
Rejected_Never(udpStatus) == FALSE
Rejected(udpStatus) == HasSuffix(udpStatus, " 02")
Sent(udpStatus) == HasSuffix(udpStatus, " 00")

\* After sendSKCommand returned: the error, the two suffix tests of udpStatus.
ExecAfterSend ==
    /\ pc = "sk_ret" /\ caller = "exec"
    /\ IF skRet.err # ""
       THEN ExecReturn([ok |-> FALSE, err |-> skRet.err, frame |-> ZeroFrame])
       ELSE IF Rejected(skRet.val)
       THEN ExecReturn([ok |-> FALSE, err |-> ErrUnconnected, frame |-> ZeroFrame])
       ELSE IF Sent(skRet.val)
       THEN /\ pc' = "scan"
            /\ scanTm' = NewTimer(ScanTimeoutSec)
            /\ UNCHANGED exRet
       ELSE /\ pc' = "ex_sleep"
            /\ UNCHANGED <<scanTm, exRet>>
    /\ SkDone
    /\ scanIdle' = 0
    /\ UNCHANGED <<tidUses, panaObs, logObs, runVars>>
    /\ UNCHANGED <<codecVars, dse, tidPool, readerVars, phase, req, retryInterval,
                   panaVars, retry, outcome, deviceVars, historyVars>>

\* retryInterval *= 2
NextInterval_Same(interval) == interval
NextInterval(interval) == interval * 2

\* time.Sleep(retryInterval); retryInterval *= 2; req.RegenerateTID()
ExecSleep ==
    /\ pc = "ex_sleep" /\ nSent < MaxAttempts
    /\ sleeps' = Append(sleeps, retryInterval)
    /\ retryInterval' = NextInterval(retryInterval)
    /\ \E tid \in tidPool : req' = [req EXCEPT !.TID = tid]
    /\ regens' = regens + 1
    /\ pc' = "ex_top"
    /\ tidUses' = 0
    /\ UNCHANGED <<skObs, scanIdle, panaObs, logObs, runVars>>
    /\ UNCHANGED <<codecVars, dse, tidPool, readerVars, skVars, phase, scanTm, exRet, panaVars,
                   retry, outcome, deviceVars, sentTIDs, nSent, wrote, events, loopFails,
                   sinceLine, gapsShort>>

(***************************************************************************)
(* func readCorrespondingEchonetFrame(input, req)                          *)
(***************************************************************************)
\* case <-tm.C
ScanTimeout ==
    /\ pc = "scan" /\ scanTm.fired
    /\ ExecReturn([ok |-> FALSE, err |-> ErrReadTimeout, frame |-> ZeroFrame])
    /\ UNCHANGED <<codecVars, obsVars, dse, tidPool, readerVars, skVars, phase, req, retryInterval,
                   panaVars, retry, outcome, deviceVars, historyVars>>

\* case line, ok := <-input with ok
ScanRecv ==
    /\ pc = "scan" /\ ch # <<>>
    /\ ch' = Tail(ch)
    /\ LET r == ScanLine(dse, req, Head(ch))
       IN  CASE r.kind = "match" ->
                    ExecReturn([ok |-> TRUE, err |-> "", frame |-> r.frame])
             [] r.kind = "error" ->
                    ExecReturn([ok |-> FALSE, err |-> r.err, frame |-> ZeroFrame])
             [] r.kind = "other" ->
                    /\ \E drained \in (IF scanTm.fired THEN BOOLEAN ELSE {TRUE}) :
                           scanTm' = ResetTimer(scanTm, ScanTimeoutSec, drained)
                    /\ UNCHANGED <<pc, exRet>>
             [] OTHER -> UNCHANGED <<pc, exRet, scanTm>>
    /\ scanIdle' = 0
    /\ recvLog' = Logged(recvLog, Head(ch))
    /\ UNCHANGED <<skObs, tidUses, panaObs, readLog, runVars>>
    /\ UNCHANGED <<codecVars, dse, tidPool, rd, chClosed, skVars, phase, req,
                   retryInterval, panaVars, retry, outcome, deviceVars, historyVars>>

\* case line, ok := <-input with !ok
ScanClosed ==
    /\ pc = "scan" /\ ch = <<>> /\ chClosed
    /\ ExecReturn([ok |-> FALSE, err |-> ErrRead, frame |-> ZeroFrame])
    /\ UNCHANGED <<codecVars, obsVars, dse, tidPool, readerVars, skVars, phase, req, retryInterval,
                   panaVars, retry, outcome, deviceVars, historyVars>>

(***************************************************************************)
(* func execPANA(input, w)                                                 *)
(***************************************************************************)
ErrPanaTotal == "PANA connection timeout (20sec)"
ErrPanaAttempt == "PANA connection timeout (10sec)"
ErrPanaRead == "PANA read error"
JoinStep == 5

PanaKind(step) == IF step = JoinStep THEN "join" ELSE "register"

PanaReturn(e) ==
    /\ pc' = "pa_ret"
    /\ paRet' = e
    /\ paTm' = TimerOff
    /\ paTotal' = TimerOff

\* Entry: tmTotal and tm are created, then SKSETPWD is sent.
PanaStart ==
    /\ pc = "pa_top"
    /\ paTotal' = NewTimer(PanaTotalSec)
    /\ paTm' = NewTimer(PanaTimeoutSec)
    /\ paRet' = ""
    /\ panaStep' = 1
    /\ \E wok \in BOOLEAN :
          /\ SkBegin(PanaCmd(1), "pana", PanaKind(1), wok)
          /\ paWrote' = IF wok THEN <<PanaCmd(1).text>> ELSE <<>>
    /\ paEv24' = 0
    /\ sinceLine' = 0
    /\ gapsShort' = TRUE
    /\ UNCHANGED <<tidUses, scanIdle, logObs, runVars>>
    /\ UNCHANGED <<codecVars, dse, tidPool, readerVars, execVars, retry, outcome,
                   sleeps, sentTIDs, nSent, regens, events, loopFails>>

\* After a sendSKCommand of execPANA returned: the error, else the next
\* command, else (after SKJOIN) the select loop.
PanaAfterCmd ==
    /\ pc = "sk_ret" /\ caller = "pana"
    /\ IF skRet.err # ""
       THEN /\ PanaReturn(skRet.err)
            /\ SkDone
            /\ UNCHANGED <<panaStep, deviceVars, wrote, sinceLine, panaObs>>
       ELSE IF panaStep < JoinStep
       THEN /\ panaStep' = panaStep + 1
            /\ \E wok \in BOOLEAN :
                   /\ SkBegin(PanaCmd(panaStep + 1), "pana", PanaKind(panaStep + 1), wok)
                   /\ paWrote' = IF wok THEN Append(paWrote, PanaCmd(panaStep + 1).text)
                                 ELSE paWrote
            /\ UNCHANGED paEv24
            /\ sinceLine' = 0
            /\ UNCHANGED <<paTm, paTotal, paRet>>
       ELSE /\ pc' = "pa_select"
            /\ SkDone
            /\ UNCHANGED <<panaVars, deviceVars, wrote, sinceLine, panaObs>>
    /\ UNCHANGED <<tidUses, scanIdle, logObs, runVars>>
    /\ UNCHANGED <<codecVars, dse, tidPool, readerVars, execVars, retry, outcome,
                   sleeps, sentTIDs, nSent, regens, events, loopFails, gapsShort>>

\* case <-tmTotal.C
PanaTotalTimeout ==
    /\ pc = "pa_select" /\ paTotal.fired
    /\ PanaReturn(ErrPanaTotal)
    /\ UNCHANGED <<codecVars, obsVars, dse, tidPool, readerVars, skVars, execVars, panaStep, retry,
                   outcome, deviceVars, historyVars>>

\* case <-tm.C
PanaTimeout ==
    /\ pc = "pa_select" /\ paTm.fired
    /\ PanaReturn(ErrPanaAttempt)
    /\ UNCHANGED <<codecVars, obsVars, dse, tidPool, readerVars, skVars, execVars, panaStep, retry,
                   outcome, deviceVars, historyVars>>

\* case line, ok := <-input with ok
PanaRecv ==
    /\ pc = "pa_select" /\ ch # <<>>
    /\ ch' = Tail(ch)
    /\ IF HasPrefix(Head(ch), "EVENT 25 ")
       THEN PanaReturn("")
       ELSE /\ \E drained \in (IF paTm.fired THEN BOOLEAN ELSE {TRUE}) :
                   paTm' = ResetTimer(paTm, PanaTimeoutSec, drained)
            /\ UNCHANGED <<pc, paRet, paTotal>>
    /\ sinceLine' = 0
    /\ paEv24' = IF HasPrefix(Head(ch), "EVENT 24 ") THEN Bump(paEv24) ELSE paEv24
    /\ recvLog' = Logged(recvLog, Head(ch))
    /\ UNCHANGED <<skObs, tidUses, scanIdle, paWrote, readLog, runVars>>
    /\ UNCHANGED <<codecVars, dse, tidPool, rd, chClosed, skVars, execVars, panaStep,
                   retry, outcome, deviceVars, sleeps, sentTIDs, nSent, regens, wrote, events,
                   loopFails, gapsShort>>

\* case line, ok := <-input with !ok
PanaClosed ==
    /\ pc = "pa_select" /\ ch = <<>> /\ chClosed
    /\ PanaReturn(ErrPanaRead)
    /\ UNCHANGED <<codecVars, obsVars, dse, tidPool, readerVars, skVars, execVars, panaStep, retry,
                   outcome, deviceVars, historyVars>>

(***************************************************************************)
(* func FetchMetrics(), from the first execEchoRequest on.                 *)
(***************************************************************************)
ErrRequest == "ECHONET request error"

FmReturn(o) ==
    /\ pc' = "fm_ret"
    /\ outcome' = o

\* execPANA is called after the first execEchoRequest failed, and nowhere else
NeedsAuth_EveryFailure(site, failed) == failed
NeedsAuth(site, failed) == failed /\ site = "first"

\* execEchoRequest has returned and its result is used
ExecDone ==
    /\ exRet' = NoExRet
    /\ sleeps' = <<>> /\ sentTIDs' = {} /\ nSent' = 0 /\ regens' = 0
    /\ scanIdle' = 0
    /\ UNCHANGED <<phase, req, retryInterval, scanTm>>

\* After execEchoRequest returned, at either call site.
FmAfterExec ==
    /\ pc = "ex_ret"
    /\ IF exRet.ok /\ EchoFrameToMetric(exRet.frame).status = "panic"
       THEN ProcessExit("panic")
       ELSE /\ IF exRet.ok
               THEN /\ FmReturn(EchoFrameToMetric(exRet.frame))
                    /\ events' = events \o <<"readok", "return">>
                    /\ UNCHANGED <<retry, loopFails>>
               ELSE IF NeedsAuth(phase, ~exRet.ok)
               THEN /\ pc' = "pa_top"
                    /\ events' = events \o <<"readfail", "auth">>
                    /\ UNCHANGED <<retry, loopFails, outcome>>
               ELSE IF retry >= RetryLimit
               THEN /\ FmReturn([status |-> "error", err |-> ErrRequest,
                                 metrics |-> NoMetrics])
                    /\ events' = events \o <<"readfail", "return">>
                    /\ loopFails' = loopFails + 1
                    /\ UNCHANGED retry
               ELSE /\ retry' = retry + 1
                    /\ pc' = "fm_loop"
                    /\ events' = Append(events, "readfail")
                    /\ loopFails' = loopFails + 1
                    /\ UNCHANGED outcome
            /\ ExecDone
            /\ UNCHANGED <<skObs, tidUses, panaObs, logObs, runVars>>
            /\ UNCHANGED <<codecVars, dse, tidPool, readerVars, skVars, panaVars,
                           deviceVars, wrote, sinceLine, gapsShort>>

\* After execPANA returned.
FmAfterPana ==
    /\ pc = "pa_ret"
    /\ IF paRet # ""
       THEN /\ FmReturn([status |-> "error", err |-> paRet, metrics |-> NoMetrics])
            /\ events' = events \o <<"authfail", "return">>
       ELSE /\ pc' = "fm_loop"
            /\ events' = Append(events, "authok")
            /\ UNCHANGED outcome
    /\ panaStep' = 0
    /\ sinceLine' = 0
    /\ gapsShort' = TRUE
    /\ paWrote' = <<>>
    /\ paEv24' = 0
    /\ UNCHANGED <<skObs, tidUses, scanIdle, logObs, runVars>>
    /\ UNCHANGED <<codecVars, dse, tidPool, readerVars, skVars, execVars, paTm, paTotal,
                   paRet, retry, deviceVars, sleeps, sentTIDs, nSent, regens, wrote,
                   loopFails>>

\* Top of the for loop: retry := 0 and the call of execEchoRequest.
FmLoopTop ==
    /\ pc = "fm_loop" /\ loopFails < MaxLoopReads
    /\ retry' = 0
    /\ CallExec("loop")
    /\ events' = Append(events, "read")
    /\ UNCHANGED <<codecVars, obsVars, dse, tidPool, readerVars, skVars, req, scanTm, exRet, panaVars,
                   outcome, deviceVars, wrote, loopFails, sinceLine, gapsShort>>

(***************************************************************************)
(* Time.  The clock moves on while the control goroutine waits in a select *)
(* with nothing to receive; it stops at each expiry of a timer and at      *)
(* least every tick seconds.                                               *)
(***************************************************************************)
ControlReady ==
    \/ pc = "sk_wait" /\ (ch # <<>> \/ chClosed \/ skTm.fired)
    \/ pc = "scan" /\ (ch # <<>> \/ chClosed \/ scanTm.fired)
    \/ pc = "pa_select" /\ (ch # <<>> \/ chClosed \/ paTm.fired \/ paTotal.fired)

Min(a, b) == IF a < b THEN a ELSE b
Left(t, d) == IF Running(t) THEN Min(t.left, d) ELSE d
Step == Left(skTm, Left(scanTm, Left(paTm, Left(paTotal, tick))))

Advance ==
    /\ Waiting /\ ~ControlReady
    /\ skTm' = ElapseTimer(skTm, Step)
    /\ scanTm' = ElapseTimer(scanTm, Step)
    /\ paTm' = ElapseTimer(paTm, Step)
    /\ paTotal' = ElapseTimer(paTotal, Step)
    /\ IF Joining
       THEN /\ sinceLine' = Min(sinceLine + Step, PanaTimeoutSec)
            /\ gapsShort' = (gapsShort /\ sinceLine + Step < PanaTimeoutSec)
       ELSE UNCHANGED <<sinceLine, gapsShort>>
    /\ skIdle' = IF pc = "sk_wait" THEN Min(skIdle + Step, SkTimeoutSec) ELSE skIdle
    /\ skElapsed' = IF pc = "sk_wait" /\ watch THEN Min(skElapsed + Step, 2 * SkTimeoutSec) ELSE skElapsed
    /\ scanIdle' = IF pc = "scan" THEN Min(scanIdle + Step, ScanTimeoutSec) ELSE scanIdle
    /\ UNCHANGED <<skSeen, skWrites, tidUses, panaObs, logObs, runVars>>
    /\ UNCHANGED <<codecVars, dse, tidPool, readerVars, pc, cmd, res, skRet, caller, phase, req,
                   retryInterval, exRet, panaStep, paRet, retry, outcome, deviceVars,
                   sleeps, sentTIDs, nSent, regens, wrote, events, loopFails>>

(***************************************************************************)
(* One call of FetchMetrics: the port is open, the reader goroutine runs,  *)
(* req := NewEchoFrame(SmartElectricMeter, Get, {power, current}, nil),    *)
(* and execEchoRequest is called for the first time.                       *)
(***************************************************************************)
FetchStart(pool, resolution, watched, at) ==
    /\ CodecIdle
    /\ ObsIdle
    /\ tick = resolution /\ watch = watched
    /\ dse \in BOOLEAN
    /\ tidPool = pool
    /\ rd = "scan" /\ ch = <<>> /\ chClosed = FALSE
    /\ pc = at
    /\ phase = "first"
    /\ \E tid \in pool :
          req = NewEchoFrame(tid, SmartElectricMeter, Get,
                             <<InstantaneousElectricPower, InstantaneousCurrent>>, TRUE, <<>>)
    /\ retryInterval = RetryIntervalMs
    /\ cmd = NoCmd /\ res = "" /\ skTm = TimerOff /\ skRet = NoSkRet /\ caller = "none"
    /\ scanTm = TimerOff /\ exRet = NoExRet
    /\ panaStep = 0 /\ paTm = TimerOff /\ paTotal = TimerOff /\ paRet = ""
    /\ retry = 0 /\ outcome = Running0
    /\ devQueue = <<>> /\ devJoin = FALSE
    /\ sleeps = <<>> /\ sentTIDs = {} /\ nSent = 0 /\ regens = 0
    /\ wrote = {} /\ events = <<"read">>
    /\ loopFails = 0 /\ sinceLine = 0 /\ gapsShort = TRUE

FetchInit(pool) == FetchStart(pool, TickSec, FALSE, "ex_top")

ReaderNext == ReaderScan \/ ReaderScanEvent \/ ReaderEof \/ ReaderErr
SkNext == SkTimeout \/ SkRecv \/ SkClosed
ExecNext == ExecSend \/ ExecAfterSend \/ ExecSleep \/ ScanTimeout \/ ScanRecv \/ ScanClosed
PanaNext ==
    PanaStart \/ PanaAfterCmd \/ PanaTotalTimeout \/ PanaTimeout \/ PanaRecv \/ PanaClosed
FmNext == FmAfterExec \/ FmAfterPana \/ FmLoopTop

\* One execEchoRequest call, the transaction ids drawn from EngineTIDs.
ExecInit == FetchInit(EngineTIDs)
ExecOnlyNext == ReaderScan \/ ReaderEof \/ ReaderErr \/ SkNext \/ ExecNext \/ Advance
SpecExec == ExecInit /\ [][ExecOnlyNext]_vars

\* One FetchMetrics call.
PollInit == FetchInit({1})
PollNext == ReaderNext \/ SkNext \/ ExecNext \/ PanaNext \/ FmNext \/ Advance
SpecPoll == PollInit /\ [][PollNext]_vars

(***************************************************************************)
(* Properties of the engine.                                               *)
(***************************************************************************)
Count(seq, e) == Cardinality({i \in DOMAIN seq : seq[i] = e})

\* C7 (as amended): within one execEchoRequest call the i-th sleep lasts
\* 500 ms * 2^(i-1), so the sleeps before attempts 2, 3 and 4 are 500,
\* 1000 and 2000 ms and the interval never resets; RegenerateTID is called
\* once with each sleep, and a frame is transmitted only after as many
\* sleeps as there were transmissions before it.
C7_BackoffDoubles ==
    /\ \A i \in DOMAIN sleeps : sleeps[i] = RetryIntervalMs * 2^(i - 1)
    /\ regens = Len(sleeps)
    /\ nSent > 0 => Len(sleeps) \in {nSent - 1, nSent}
    /\ pc \in {"sk_wait", "scan"} => Len(sleeps) = nSent - 1
    /\ (pc = "scan" /\ nSent = 4) => sleeps = <<500, 1000, 2000>>

\* C7, witness: three local send failures, then the fourth attempt is
\* reported sent and the response scan begins.
C7_Witness ==
    /\ pc = "scan" /\ nSent = 4 /\ phase = "first"
    /\ sleeps = <<500, 1000, 2000>>

\* C7 (as stated): as above, and the four transmitted frames carry pairwise
\* different transaction ids.
C7_DistinctTIDs ==
    (pc = "scan" /\ nSent = 4) =>
        /\ sleeps = <<500, 1000, 2000>>
        /\ Cardinality(sentTIDs) = 4

\* C8 (as stated): when every gap between lines since SKJOIN was written
\* has been shorter than the 10 s per-attempt timeout, execPANA does not
\* give up for the per-attempt reason: of the two timeouts it reports the
\* total one.
C8_TotalTimeoutOnly ==
    (pc = "pa_ret" /\ gapsShort /\ paRet \in {ErrPanaAttempt, ErrPanaTotal}) =>
        paRet = ErrPanaTotal

\* C9: in one FetchMetrics call execPANA is called at most once, and only
\* right after the first execEchoRequest failed; no command of execPANA is
\* written otherwise, so none when the first read succeeds; after execPANA
\* succeeded the next thing is another read; after it failed FetchMetrics
\* returns its error with no further read.
PanaTexts == {PanaCmd(step).text : step \in 1..JoinStep}

C9_AuthOnceAfterFailedRead ==
    /\ Count(events, "auth") <= 1
    /\ \A i \in DOMAIN events :
           events[i] = "auth" => i = 3 /\ events[1] = "read" /\ events[2] = "readfail"
    /\ wrote \cap PanaTexts # {} => Count(events, "auth") = 1
    /\ (Len(events) >= 2 /\ events[2] = "readok") => wrote \cap PanaTexts = {}
    /\ \A i \in DOMAIN events :
           events[i] = "authok" =>
               IF i < Len(events) THEN events[i + 1] = "read" ELSE pc = "fm_loop"
    /\ \A i \in DOMAIN events :
           events[i] = "authfail" =>
               /\ Len(events) = i + 1 /\ events[i + 1] = "return"
               /\ pc = "fm_ret"
               /\ outcome.status = "error" /\ outcome.err = paRet /\ paRet # ""

\* C9, witness: the first read failed, execPANA succeeded, and the read
\* made after it returned metrics.
C9_Witness ==
    /\ pc = "fm_ret" /\ outcome.status = "ok"
    /\ Count(events, "auth") = 1 /\ Count(events, "authok") = 1
    /\ Count(events, "read") = 2

\* C10 (as stated): the process is never ended from inside FetchMetrics,
\* and once the reads after authentication have failed more than three
\* times FetchMetrics has returned.
C10_ReturnsAfterBoundedReads ==
    /\ outcome.status # "exit"
    /\ loopFails > RetryLimit => pc = "fm_ret"


(***************************************************************************)
(* sendSKCommand on its own: one call with a command of each kind, the     *)
(* address resolution SKLL64 included, which FetchMetrics does not send.   *)
(***************************************************************************)
DriverCmds ==
    { [c |-> ResolveCmd, kind |-> "resolve"],
      [c |-> PanaCmd(3), kind |-> "register"],
      [c |-> SendToCmd(FALSE, Build(ResponseTo(1))), kind |-> "send"] }

DriverInit ==
    FetchStart({1}, TickSec, TRUE, "drv_top")

\* p.sendSKCommand(ch, writer, cmd), up to its select
DriverCall ==
    /\ pc = "drv_top"
    /\ \E d \in DriverCmds, wok \in BOOLEAN : SkBegin(d.c, "driver", d.kind, wok)
    /\ UNCHANGED <<tidUses, scanIdle, panaObs, logObs, runVars>>
    /\ UNCHANGED <<codecVars, dse, tidPool, readerVars, execVars, panaVars, retry, outcome,
                   sleeps, sentTIDs, nSent, regens, events, loopFails, sinceLine, gapsShort>>

DriverNext ==
    DriverCall \/ ReaderScan \/ ReaderEof \/ ReaderErr \/ SkNext \/ Advance
SpecDriver == DriverInit /\ [][DriverNext]_vars


(***************************************************************************)
(* Properties of sendSKCommand.                                            *)
(***************************************************************************)
RECURSIVE Concat(_)
Concat(lines) == IF lines = <<>> THEN "" ELSE Head(lines) \o Concat(Tail(lines))

Front(lines) == SubSeq(lines, 1, Len(lines) - 1)
Last(lines) == lines[Len(lines)]

\* a line that ends the call that receives it
Terminal(command, line) ==
    HasPrefix(line, "FAIL ") \/ line = "OK" \/ HasPrefix(command.text, "SKLL64 ")

NoneTerminal(command, lines) == \A i \in DOMAIN lines : ~Terminal(command, lines[i])

\* C11: a sendSKCommand call writes its command once; while it waits every
\* line it has received is non-terminal and res is their concatenation; it
\* returns on the first terminal event: a FAIL line gives the error carrying
\* that line, OK gives the concatenation of the lines before it, for SKLL64
\* the first other line gives that line, a closed channel gives the read
\* error, the timer gives the timeout error; the terminal line is the last
\* line the call received.
C11_OneOutcome ==
    /\ pc = "sk_wait" =>
           /\ skWrites = 1
           /\ NoneTerminal(cmd, skSeen)
           /\ res = Concat(skSeen)
    /\ pc = "sk_ret" =>
           CASE skRet.err = ErrSkWrite ->
                    skWrites = 0 /\ skSeen = <<>> /\ skRet.val = ""
             [] skRet.err = ErrSkTimeout ->
                    skWrites = 1 /\ NoneTerminal(cmd, skSeen) /\ skRet.val = ""
             [] skRet.err = ErrSkRead ->
                    skWrites = 1 /\ NoneTerminal(cmd, skSeen) /\ skRet.val = "" /\ chClosed
             [] OTHER ->
                    /\ skWrites = 1
                    /\ skSeen # <<>>
                    /\ NoneTerminal(cmd, Front(skSeen))
                    /\ IF HasPrefix(Last(skSeen), "FAIL ")
                       THEN skRet = [val |-> "", err |-> ErrSkResponse \o Last(skSeen)]
                       ELSE IF Last(skSeen) = "OK"
                       THEN skRet = [val |-> Concat(Front(skSeen)), err |-> ""]
                       ELSE /\ HasPrefix(cmd.text, "SKLL64 ")
                            /\ skRet = [val |-> Last(skSeen), err |-> ""]
    /\ (watch /\ pc \in {"sk_wait", "sk_ret"}) => recvLog = skSeen /\ readLog = recvLog \o ch

\* C11, witness: SKLL64 returned the address, and the line the module sent
\* after it is still unread.
C11_Witness ==
    /\ pc = "sk_ret" /\ cmd = ResolveCmd
    /\ skRet = [val |-> ResolvedAddr, err |-> ""]
    /\ ch = <<"OK">>


(***************************************************************************)
(* The reader goroutine and the channel, watched: the first read of a      *)
(* FetchMetrics call and the authentication after it, with the lines read  *)
(* and received on record.                                                 *)
(***************************************************************************)
MuxInit == FetchStart({1}, TickSec, TRUE, "ex_top")
MuxNext ==
    ReaderNext \/ SkNext \/ ExecNext \/ PanaNext \/ FmAfterExec \/ FmAfterPana \/ Advance
SpecMux == MuxInit /\ [][MuxNext]_vars

IsPrefix(p, q) == Len(p) <= Len(q) /\ SubSeq(q, 1, Len(p)) = p

\* C12 (as stated): once the reader goroutine has left its loop, at the end
\* of the stream or on a read error, the channel is closed.
C12_QueueClosed == rd = "closed" => chClosed

\* C13: the lines the control flow has received are a prefix of the lines
\* read from the stream, the rest of them waiting in the channel in the
\* order read; the channel holds at most 4 lines.
C13_Ordered ==
    /\ Len(ch) <= ChanCap
    /\ IsPrefix(recvLog, readLog)
    /\ (watch /\ pc # "exit") => readLog = recvLog \o ch

\* C13, witness: the channel is full, lines have been received, and the
\* next line of the stream waits to be sent.
C13_Witness ==
    /\ watch /\ Len(ch) = ChanCap /\ recvLog # <<>>
    /\ devJoin /\ Len(readLog) < MaxLog


\* C14 (as stated): no two transmissions of the request are made with the
\* same transaction id: RegenerateTID runs between any two SKSENDTO writes.
C14_FreshTIDEachSend == tidUses <= 1


\* C15: when sendSKCommand has returned to execEchoRequest, an error is
\* returned as it is and a status ending in " 02" is returned as the
\* unconnected error, both at once: no sleep, no RegenerateTID, no further
\* SKSENDTO and no scan; a status ending in " 00" starts the scan, and only
\* any other status goes to the sleep and the re-send.
C15_RejectedSendFailsAtOnce ==
    [][(pc = "sk_ret" /\ caller = "exec") =>
         IF skRet.err # "" \/ HasSuffix(skRet.val, " 02")
         THEN /\ pc' = "ex_ret"
              /\ exRet'.ok = FALSE
              /\ exRet'.err = (IF skRet.err # "" THEN skRet.err ELSE ErrUnconnected)
              /\ scanTm' = TimerOff
              /\ UNCHANGED <<sleeps, retryInterval, req, regens, nSent, sentTIDs, wrote>>
         ELSE IF HasSuffix(skRet.val, " 00")
         THEN pc' = "scan" /\ UNCHANGED <<sleeps, req, nSent>>
         ELSE pc' = "ex_sleep"]_vars

\* C15, witness: the first SKSENDTO of a call was answered with a status
\* ending in " 02" and execEchoRequest has returned the unconnected error.
C15_Witness ==
    /\ pc = "ex_ret" /\ exRet.err = ErrUnconnected
    /\ nSent = 1 /\ sleeps = <<>> /\ regens = 0


(***************************************************************************)
(* One scan, readCorrespondingEchonetFrame(input, req): SKSENDTO has been  *)
(* written once and answered "EVENT 21 ... 00", "OK"; the module then      *)
(* passes on what it receives, line by line, at any time: status events,   *)
(* datagrams of other senders in every shape, the meter's answer.          *)
(***************************************************************************)
ErxHead(dualStack) ==
    "ERXUDP FE80 FE81 0E1A 0E1A 001D 1 " \o (IF dualStack THEN "0 " ELSE "")

ScanLines(tid, dualStack) ==
    { SentOk,                                       \* not a datagram line
      "ERXUDP FE80 FE81",                           \* too few tokens
      ErxHead(dualStack) \o "ZZZZ 1081",            \* length not a number
      ErxHead(dualStack) \o "0003 1081",            \* length matches neither form
      ErxHead(dualStack) \o "0002 10ZZ",            \* not hexadecimal
      ErxHead(dualStack) \o "0002 1081",            \* too short for a frame
      ErxLine(dualStack, ResponseTo((tid + 1) % 65536)),
      ErxLine(dualStack, RefusalTo(tid)),
      ErxLine(dualStack, ResponseTo(tid)) }

ScanStart(resolution, lines) ==
    /\ CodecIdle
    /\ skSeen = <<>> /\ skWrites = 0 /\ skIdle = 0 /\ skElapsed = 0
    /\ tidUses = 1 /\ scanIdle = 0
    /\ paWrote = <<>> /\ paEv24 = 0
    /\ readLog = <<>> /\ recvLog = <<>>
    /\ tick = resolution /\ watch = FALSE
    /\ dse \in BOOLEAN
    /\ tidPool = {1}
    /\ rd = "scan" /\ ch = <<>> /\ chClosed = FALSE
    /\ pc = "scan"
    /\ phase = "first"
    /\ req = NewEchoFrame(1, SmartElectricMeter, Get,
                          <<InstantaneousElectricPower, InstantaneousCurrent>>, TRUE, <<>>)
    /\ retryInterval = RetryIntervalMs
    /\ cmd = NoCmd /\ res = "" /\ skTm = TimerOff /\ skRet = NoSkRet /\ caller = "none"
    /\ scanTm = NewTimer(ScanTimeoutSec) /\ exRet = NoExRet
    /\ panaStep = 0 /\ paTm = TimerOff /\ paTotal = TimerOff /\ paRet = ""
    /\ retry = 0 /\ outcome = Running0
    /\ devQueue = lines /\ devJoin = FALSE
    /\ sleeps = <<>> /\ sentTIDs = {1} /\ nSent = 1 /\ regens = 0
    /\ wrote = {SendToCmd(dse, Build(req)).text} /\ events = <<"read">>
    /\ loopFails = 0 /\ sinceLine = 0 /\ gapsShort = TRUE

ScanInit ==
    \E lines \in SeqsUpTo(ScanLines(1, FALSE) \cup ScanLines(1, TRUE), MaxScanLines) :
        ScanStart(FineTickSec, lines)
ScanNext ==
    \/ ReaderScan \/ ReaderEof \/ ReaderErr \/ ScanTimeout \/ ScanRecv \/ ScanClosed
    \/ FmAfterExec \/ Advance
SpecScan == ScanInit /\ [][ScanNext]_vars

\* C16 (as stated): the scan ends only with a frame that corresponds to the
\* request, with the read timeout, or with the closure of the channel.
C16_OnlyCorrelatingEnds ==
    (pc = "ex_ret" /\ phase = "first" /\ nSent = 1) =>
        \/ exRet.ok /\ exRet.err = "" /\ CorrespondTo(req, exRet.frame)
        \/ ~exRet.ok /\ exRet.err \in {ErrReadTimeout, ErrRead}

\* C17 (as stated): every line the scan receives and does not return on
\* restarts the 3 s timer (here for a timer that has not fired yet).
C17_EveryLineRestarts ==
    [][(pc = "scan" /\ ~scanTm.fired /\ ch # <<>> /\ ch' = Tail(ch) /\ pc' = "scan")
          => scanTm' = NewTimer(ScanTimeoutSec)]_vars


PanaOrder ==
    << "SKSETPWD C " \o RoutebPassword, "SKSETRBID " \o RoutebID,
       "SKSREG S2 " \o Channel, "SKSREG S3 " \o PanID, "SKJOIN " \o IPAddr >>

InPanaCmd == pc \in {"sk_wait", "sk_ret"} /\ caller = "pana"

\* C19: what execPANA has written is at every moment the first commands of
\* set password, set route id, set channel, set PAN id, join, in this order
\* and each once; a command after the first is written only when the one
\* before it has returned without error; when a command returns an error
\* execPANA returns that error at once and writes nothing more.
C19_CredentialsInOrder ==
    /\ [](/\ IsPrefix(paWrote, PanaOrder)
          /\ (InPanaCmd => paWrote = SubSeq(PanaOrder, 1, panaStep - 1 + skWrites))
          /\ (pc = "pa_select" => paWrote = PanaOrder)
          /\ (pc = "pa_ret" /\ Len(paWrote) < JoinStep) =>
                 /\ paRet \notin {"", ErrPanaTotal, ErrPanaAttempt, ErrPanaRead}
                 /\ Len(paWrote) \in {panaStep - 1, panaStep})
    /\ [][/\ (Len(paWrote') > Len(paWrote) /\ paWrote # <<>>) =>
                 (pc = "sk_ret" /\ caller = "pana" /\ skRet.err = "" /\ skWrites = 1)
          /\ (pc = "sk_ret" /\ caller = "pana" /\ skRet.err # "") =>
                 (pc' = "pa_ret" /\ paRet' = skRet.err /\ paWrote' = paWrote /\ wrote' = wrote)
          /\ (pc = "pa_ret" => Len(paWrote') <= Len(paWrote))]_vars

\* C19, witness: set channel was answered FAIL; execPANA has returned that
\* error with the first three commands written and no more.
C19_Witness ==
    /\ pc = "pa_ret" /\ paRet = ErrSkResponse \o "FAIL ER04"
    /\ paWrote = SubSeq(PanaOrder, 1, 3)


\* C20 (as stated): while execPANA waits for the join to complete, SKJOIN
\* has been written once at the start and once more for every EVENT 24
\* line received.
C20_RejoinOnFailure ==
    (pc = "pa_select" /\ paEv24 < 2) => Count(paWrote, PanaOrder[JoinStep]) = 1 + paEv24


\* C21 (as stated): at the moment SKJOIN is written both timers of execPANA
\* are at their full time, 10 s and 20 s, whatever the four commands before
\* it took.
C21_TimersStartAtJoin ==
    (pc = "sk_wait" /\ caller = "pana" /\ panaStep = JoinStep /\ skSeen = <<>> /\ skIdle = 0)
        => (paTm = NewTimer(PanaTimeoutSec) /\ paTotal = NewTimer(PanaTotalSec))


\* C22 (as stated): FetchMetrics never ends in a run-time panic of
\* echoFrameToMetric on the frame the scan returned.
C22_NoPanic == outcome.err # "panic"


\* The script the module follows for a command, by the command's text.
CmdKind(c) ==
    IF HasPrefix(c.text, "SKSENDTO ") THEN "send"
    ELSE IF HasPrefix(c.text, "SKJOIN ") THEN "join"
    ELSE IF HasPrefix(c.text, "SKLL64 ") THEN "resolve"
    ELSE "register"

\* C23 (as stated): the lines a sendSKCommand call has received, its
\* terminal line included, are lines the module emitted for the command
\* this call wrote: the beginning of one of the replies to that command.
C23_OwnReplyOnly ==
    (pc \in {"sk_wait", "sk_ret"} /\ skWrites = 1) =>
        \E reply \in Replies(CmdKind(cmd), req.TID, dse) : IsPrefix(skSeen, reply)


(***************************************************************************)
(* One execEchoRequest call, watched, in which the meter answers fast:     *)
(* SKSENDTO has just been written, and the module emits the datagram with  *)
(* the answer before, between or after the status event and "OK".          *)
(***************************************************************************)
AsyncReplies(tid, dualStack) ==
    LET answer == ErxLine(dualStack, ResponseTo(tid))
    IN  { <<SentOk, "OK", answer>>,
          <<SentOk, answer, "OK">>,
          <<answer, SentOk, "OK">> }

AsyncStart(reply) ==
    /\ CodecIdle
    /\ skSeen = <<>> /\ skWrites = 1 /\ skIdle = 0 /\ skElapsed = 0
    /\ tidUses = 1 /\ scanIdle = 0
    /\ paWrote = <<>> /\ paEv24 = 0
    /\ readLog = <<>> /\ recvLog = <<>>
    /\ tick = TickSec /\ watch = TRUE
    /\ dse \in BOOLEAN
    /\ tidPool = {1}
    /\ rd = "scan" /\ ch = <<>> /\ chClosed = FALSE
    /\ pc = "sk_wait"
    /\ phase = "first"
    /\ req = NewEchoFrame(1, SmartElectricMeter, Get,
                          <<InstantaneousElectricPower, InstantaneousCurrent>>, TRUE, <<>>)
    /\ retryInterval = RetryIntervalMs
    /\ cmd = SendToCmd(dse, Build(req)) /\ res = "" /\ skTm = NewTimer(SkTimeoutSec)
    /\ skRet = NoSkRet /\ caller = "exec"
    /\ scanTm = TimerOff /\ exRet = NoExRet
    /\ panaStep = 0 /\ paTm = TimerOff /\ paTotal = TimerOff /\ paRet = ""
    /\ retry = 0 /\ outcome = Running0
    /\ devQueue = reply /\ devJoin = FALSE
    /\ sleeps = <<>> /\ sentTIDs = {1} /\ nSent = 1 /\ regens = 0
    /\ wrote = {cmd.text} /\ events = <<"read">>
    /\ loopFails = 0 /\ sinceLine = 0 /\ gapsShort = TRUE

AsyncInit ==
    \E reply \in AsyncReplies(1, FALSE) \cup AsyncReplies(1, TRUE) \cup {<<>>} :
        AsyncStart(reply)
AsyncNext == ReaderScan \/ ReaderEof \/ ReaderErr \/ SkNext \/ ExecNext \/ Advance
SpecAsync == AsyncInit /\ [][AsyncNext]_vars

Has(seq, e) == \E i \in DOMAIN seq : seq[i] = e

\* C24 (as stated): when the first SKSENDTO of a call was answered with the
\* status of success and "OK", and the datagram with the meter's answer
\* was received as well, before or after the "OK", then the call returns
\* that answer; and the call goes to the sleep and the re-send only when
\* the status received was not the one of success.
C24_NotificationsKept ==
    /\ (pc = "ex_ret" /\ nSent = 1 /\ Has(recvLog, SentOk) /\ Has(recvLog, "OK")
           /\ Has(recvLog, ErxLine(dse, ResponseTo(req.TID))))
          => (exRet.ok /\ CorrespondTo(req, exRet.frame))
    /\ (pc = "ex_sleep" /\ nSent = 1) => ~Has(recvLog, SentOk)

=============================================================================
